---- MODULE Spec2Model ----
(***************************************************************************)
(* Model of scripts/generate-layout-docs.py: the generator that reads the  *)
(* layout definitions of a .kbdgen directory and writes docs/layout.md.    *)
(*                                                                         *)
(* Representation of Python values:                                        *)
(*   str         a sequence of one-character strings ("characters");       *)
(*   text        a sequence of string pieces: characters, the literal      *)
(*               pieces of the f-strings, and "\n"; concatenation is \o;   *)
(*   dict        a function; the empty dict is <<>>; a platform's mapping  *)
(*               of variants, of which only the keys and their insertion   *)
(*               order are used, is the sequence of its keys;              *)
(*   None        the reserved value None below.                            *)
(***************************************************************************)
EXTENDS Naturals, Sequences, FiniteSets, TLC

VARIABLES
  kbdgen_dirs,    \* what glob.glob('*.kbdgen') returns, in the order it returns it
  layouts_exists, \* os.path.exists(<kbdgen_dir>/layouts)
  layouts,        \* the files of <kbdgen_dir>/layouts: file name -> what reading it gives
  out_file,       \* content of docs/layout.md
  out_opened,     \* how many times docs/layout.md has been opened for writing
  pc,             \* position of the run
  lang_code,      \* local of generate_layout_documentation
  title,          \* local of generate_layout_documentation
  output,         \* local of generate_layout_documentation: list of texts
  layout_files,   \* local of generate_layout_documentation: sorted paths
  idx,            \* position of the for loop over layout_files
  markdown,       \* local of main
  reads,          \* the paths read_yaml_file has been called with, in order
  stderr,         \* the diagnostics printed to the error stream, in order
  stdout,         \* the messages printed to the standard output stream
  exc,            \* the exception that reached main's handler ("" when none)
  exit_code,      \* the exit code the process ends with (0 unless sys.exit sets it)
  fn,             \* unit runs: the function applied
  args,           \* unit runs: its arguments
  ret             \* unit runs: its result

vars == <<kbdgen_dirs, layouts_exists, layouts, out_file, out_opened, pc, lang_code,
          title, output, layout_files, idx, markdown, reads, stderr, stdout, exc,
          exit_code, fn, args, ret>>

run_vars == <<kbdgen_dirs, layouts_exists, layouts, out_file, out_opened, lang_code,
              title, output, layout_files, idx, markdown, reads, stderr, stdout, exc,
              exit_code>>

----------------------------------------------------------------------------
(* Bounds of the model. *)

\* most layout files present in the layouts directory
MaxFiles == 2

\* longest display name given to extract_region_label
MaxNameLen == 5

\* most variants declared under one platform in the unit runs
MaxVariants == 3

----------------------------------------------------------------------------
(* Python values and string methods. *)

None == <<"<None>">>

\* truth value of a str, a variants mapping or None: `not v`
Falsy(v) == v = None \/ v = <<>>

\* dict.get(k) and dict.get(k, default)
DictGet(d, k) == IF k \in DOMAIN d THEN d[k] ELSE None

DictGetDefault(d, k, default) == IF k \in DOMAIN d THEN d[k] ELSE default

\* the characters the model uses, in code point order
CodePoints ==
  <<" ", "(", ")", "-", ".", "/",
    "A", "B", "C", "D", "E", "F", "G", "H", "I", "J", "K", "L", "M",
    "N", "O", "P", "Q", "R", "S", "T", "U", "V", "W", "X", "Y", "Z",
    "a", "b", "c", "d", "e", "f", "g", "h", "i", "j", "k", "l", "m",
    "n", "o", "p", "q", "r", "s", "t", "u", "v", "w", "x", "y", "z">>

Ord(c) == CHOOSE i \in 1..Len(CodePoints) : CodePoints[i] = c

\* a < b for two str, as Python orders them (by code point, a prefix first)
RECURSIVE StrLess(_, _)
StrLess(a, b) ==
  IF b = <<>> THEN FALSE
  ELSE IF a = <<>> THEN TRUE
  ELSE IF Head(a) = Head(b) THEN StrLess(Tail(a), Tail(b))
  ELSE Ord(Head(a)) < Ord(Head(b))

\* a faulty variant of Sorted: the paths ordered by their text before the extension
RECURSIVE SortedByStem(_)
SortedByStem(S) ==
  IF S = {} THEN <<>>
  ELSE LET m == CHOOSE x \in S :
                  \A y \in S \ {x} :
                    StrLess(SubSeq(x, 1, Len(x) - 5), SubSeq(y, 1, Len(y) - 5))
       IN <<m>> \o SortedByStem(S \ {m})

\* sorted(S) for a set of str
RECURSIVE Sorted(_)
Sorted(S) ==
  IF S = {} THEN <<>>
  ELSE LET m == CHOOSE x \in S : \A y \in S \ {x} : StrLess(x, y)
       IN <<m>> \o Sorted(S \ {m})

StartsWith(s, p) == Len(s) >= Len(p) /\ SubSeq(s, 1, Len(p)) = p

EndsWith(s, p) == Len(s) >= Len(p) /\ SubSeq(s, Len(s) - Len(p) + 1, Len(s)) = p

\* s.replace(old, ''), old not empty
RECURSIVE Remove(_, _)
Remove(s, old) ==
  IF s = <<>> THEN <<>>
  ELSE IF StartsWith(s, old) THEN Remove(SubSeq(s, Len(old) + 1, Len(s)), old)
  ELSE <<Head(s)>> \o Remove(Tail(s), old)

\* c.upper() for one character
UpperChar(c) ==
  IF Ord(c) >= Ord("a") /\ Ord(c) <= Ord("z") THEN CodePoints[Ord(c) - Ord("a") + Ord("A")]
  ELSE c

\* s.upper()
Upper(s) == [i \in 1..Len(s) |-> UpperChar(s[i])]

\* os.path.basename(path)
RECURSIVE Basename(_)
Basename(path) ==
  IF path = <<>> \/ path[Len(path)] = "/" THEN <<>>
  ELSE Basename(SubSeq(path, 1, Len(path) - 1)) \o <<path[Len(path)]>>

\* os.path.join(a, b), b relative
PathJoin(a, b) == a \o <<"/">> \o b

\* sep.join(list) for a list of texts
RECURSIVE StrJoin(_, _)
StrJoin(sep, list) ==
  IF list = <<>> THEN <<>>
  ELSE IF Len(list) = 1 THEN list[1]
  ELSE list[1] \o sep \o StrJoin(sep, Tail(list))

DOT_YAML == <<".", "y", "a", "m", "l">>

DOT_KBDGEN == <<".", "k", "b", "d", "g", "e", "n">>

LAYOUTS == <<"l", "a", "y", "o", "u", "t", "s">>

EN == <<"e", "n">>

----------------------------------------------------------------------------
(* Module constants. *)

EMBED_BASE_URL == "https://keyboard.giellalt.org/embed"

PLATFORM_NAMES ==
  [macOS |-> "Mac", windows |-> "Windows", chromeOS |-> "ChromeOS",
   android |-> "Android", iOS |-> "iOS/iPadOS"]

MOBILE_DEVICE_TYPES ==
  ("primary" :> "Phone") @@ ("tablet-600" :> "Tablet") @@
  ("iPad-9in" :> "9\" iPad") @@ ("iPad-12in" :> "12\" iPad")

DesktopPlatforms == <<"macOS", "windows", "chromeOS">>

MobilePlatforms == <<"android", "iOS">>

----------------------------------------------------------------------------
(* The pure functions. Platform and variant identifiers, which the code    *)
(* only compares and substitutes whole, are single pieces.                 *)

\* a or b
PyOr(a, b) == IF Falsy(a) THEN b ELSE a

get_language_code(kbdgen_dir) == Remove(Basename(kbdgen_dir), DOT_KBDGEN)

\* a faulty variant of get_layout_display_name: the language code probed first
get_layout_display_name_LangFirst(layout_data, layout_name, lang) ==
  LET display_names == DictGetDefault(layout_data, "displayNames", <<>>)
  IN PyOr(PyOr(PyOr(DictGet(display_names, lang),
                    DictGet(display_names, layout_name)),
               DictGet(display_names, EN)),
          layout_name)

get_layout_display_name(layout_data, layout_name, lang) ==
  LET display_names == DictGetDefault(layout_data, "displayNames", <<>>)
  IN PyOr(PyOr(PyOr(DictGet(display_names, layout_name),
                    DictGet(display_names, lang)),
               DictGet(display_names, EN)),
          layout_name)

generate_iframe(kbd, layout, platform, variant) ==
  LET url == <<EMBED_BASE_URL, "?kbd=">> \o kbd \o <<"&layout=">> \o layout
             \o <<"&platform=", platform, "&variant=", variant>>
  IN <<"<iframe src=\"">> \o url \o <<"\"></iframe>">>

\* the first ")" of s at or after position i; Len(s) + 1 when there is none
RECURSIVE NextClose(_, _)
NextClose(s, i) ==
  IF i > Len(s) THEN Len(s) + 1
  ELSE IF s[i] = ")" THEN i
  ELSE NextClose(s, i + 1)

\* a faulty variant of MatchAt: the pattern \(([^)]*)\)
MatchAt_AllowEmpty(s, i) ==
  /\ s[i] = "("
  /\ NextClose(s, i + 1) <= Len(s)

\* whether \(([^)]+)\) matches s starting at position i
MatchAt(s, i) ==
  /\ s[i] = "("
  /\ NextClose(s, i + 1) <= Len(s)
  /\ NextClose(s, i + 1) > i + 1

extract_region_label(display_name) ==
  LET starts == {i \in 1..Len(display_name) : MatchAt(display_name, i)}
  IN IF starts = {} THEN None
     ELSE LET i == CHOOSE k \in starts : \A m \in starts : k <= m
          IN SubSeq(display_name, i + 1, NextClose(display_name, i + 1) - 1)

\* a faulty variant of generate_desktop_section: the embed of the first declared variant
generate_desktop_section_FirstVariant(kbd, layout_name, layout_data, platform, region_label) ==
  LET variants == DictGet(layout_data, platform)
      platform_name == DictGetDefault(PLATFORM_NAMES, platform, platform)
      heading == IF ~Falsy(region_label)
                 THEN <<"## ", platform_name, " (">> \o region_label \o <<")">>
                 ELSE <<"## ", platform_name>>
  IN IF Falsy(variants) THEN None
     ELSE heading \o <<"\n", "\n">>
          \o generate_iframe(kbd, layout_name, platform, variants[1]) \o <<"\n">>

generate_desktop_section(kbd, layout_name, layout_data, platform, region_label) ==
  LET variants == DictGet(layout_data, platform)
      platform_name == DictGetDefault(PLATFORM_NAMES, platform, platform)
      heading == IF ~Falsy(region_label)
                 THEN <<"## ", platform_name, " (">> \o region_label \o <<")">>
                 ELSE <<"## ", platform_name>>
      iframe == generate_iframe(kbd, layout_name, platform, "primary")
  IN IF Falsy(variants) THEN None
     ELSE heading \o <<"\n", "\n">> \o iframe \o <<"\n">>

\* a faulty variant of device_label: without the iPhone override
device_label_TableOnly(platform, variant_name) ==
  DictGetDefault(MOBILE_DEVICE_TYPES, variant_name, variant_name)

\* the label of one variant in generate_mobile_section's loop
device_label(platform, variant_name) ==
  IF platform = "iOS" /\ variant_name = "primary" THEN "iPhone"
  ELSE DictGetDefault(MOBILE_DEVICE_TYPES, variant_name, variant_name)

\* the for loop of generate_mobile_section over the variants left, from a given output list
RECURSIVE MobileLoop(_, _, _, _, _)
MobileLoop(kbd, layout_name, platform, variants, out) ==
  IF variants = <<>> THEN out
  ELSE IF Head(variants) = "config"
       THEN MobileLoop(kbd, layout_name, platform, Tail(variants), out)
       ELSE MobileLoop(kbd, layout_name, platform, Tail(variants),
              Append(out, <<"\n", "### ", device_label(platform, Head(variants)), "\n", "\n">>
                          \o generate_iframe(kbd, layout_name, platform, Head(variants))))

\* a faulty variant of generate_mobile_section: absent only for a missing or null entry
generate_mobile_section_NoneOnly(kbd, layout_name, layout_data, platform) ==
  LET variants == DictGet(layout_data, platform)
      platform_name == DictGetDefault(PLATFORM_NAMES, platform, platform)
  IN IF variants = None THEN None
     ELSE StrJoin(<<"\n">>, MobileLoop(kbd, layout_name, platform, variants,
                                       << <<"## ", platform_name>> >>)) \o <<"\n">>

generate_mobile_section(kbd, layout_name, layout_data, platform) ==
  LET variants == DictGet(layout_data, platform)
      platform_name == DictGetDefault(PLATFORM_NAMES, platform, platform)
  IN IF Falsy(variants) THEN None
     ELSE StrJoin(<<"\n">>, MobileLoop(kbd, layout_name, platform, variants,
                                       << <<"## ", platform_name>> >>)) \o <<"\n">>

----------------------------------------------------------------------------
(* The file system the run starts from. *)

SMA == <<"s", "m", "a">>

SE == <<"S", "E">>

SMA_N == <<"s", "m", "a", "-", "N">>

\* what glob.glob('*.kbdgen') may return
KbdgenGlobs ==
  { <<>>, <<SMA \o DOT_KBDGEN>>, <<SE \o DOT_KBDGEN, SMA \o DOT_KBDGEN>> }

\* the displayNames of the layout records of the runs
DisplayNamesMenu ==
  { (EN :> <<"S">>) @@ (SMA :> <<"S">>),
    (EN :> <<"S">>) @@ (SMA :> <<"s", " ", "(", "N", ")">>),
    (SMA :> <<"s">>) @@ (SMA_N :> <<"(", "N", ")">>) }

\* the platform entries of the layout records of the runs
PlatformsMenu ==
  { <<>>,
    ("macOS" :> <<"primary">>) @@ ("windows" :> <<"primary", "x">>)
      @@ ("iOS" :> <<"primary", "config", "tablet-600">>),
    ("windows" :> <<>>) @@ ("chromeOS" :> <<"primary">>)
      @@ ("android" :> <<"tablet-600">>) @@ ("iOS" :> <<"config">>) }

\* the layout records: with and without displayNames
LayoutRecords ==
  PlatformsMenu \cup { ("displayNames" :> dn) @@ p : dn \in DisplayNamesMenu, p \in PlatformsMenu }

\* what a file of the layouts directory holds: a file that cannot be opened or
\* decoded, an empty document (decoded to None), a document that is a sequence,
\* or a document that is a mapping
FileContents ==
  { [kind |-> "unreadable", data |-> <<>>],
    [kind |-> "null", data |-> <<>>],
    [kind |-> "list", data |-> <<>>] }
  \cup { [kind |-> "dict", data |-> r] : r \in LayoutRecords }

YamlNames == { SMA \o DOT_YAML, SMA_N \o DOT_YAML, SE \o DOT_YAML }

\* a file of the layouts directory that is no layout definition
OtherName == SMA \o <<".", "t", "x", "t">>

LayoutsDirs ==
  UNION { [names -> FileContents] : names \in { n \in SUBSET YamlNames : Cardinality(n) <= MaxFiles } }
  \cup { (OtherName :> [kind |-> "unreadable", data |-> <<>>]) @@ f :
           f \in UNION { [names -> FileContents] :
                           names \in { n \in SUBSET YamlNames : Cardinality(n) < MaxFiles } } }

OldContent == <<"old">>

----------------------------------------------------------------------------
(* Reading a file. *)

PyNone == [kind |-> "None", data |-> <<>>]

\* whether read_yaml_file(path) catches an exception (and prints its diagnostic)
ReadFails(path) ==
  \/ Basename(path) \notin DOMAIN layouts
  \/ layouts[Basename(path)].kind = "unreadable"

\* the value read_yaml_file(path) returns
read_yaml_file(path) ==
  IF ReadFails(path) THEN PyNone
  ELSE IF layouts[Basename(path)].kind = "null" THEN PyNone
  ELSE layouts[Basename(path)]

\* the truth value of what read_yaml_file returned
Truthy(value) ==
  \/ value.kind = "list"
  \/ value.kind = "dict" /\ DOMAIN value.data # {}

\* the diagnostics of read_yaml_file(path); the error stream escapes what it
\* cannot encode, so printing them does not raise
ReadDiagnostics(path) ==
  IF ReadFails(path) THEN << <<"Error reading", path>> >> ELSE <<>>

find_kbdgen_dir == IF kbdgen_dirs = <<>> THEN None ELSE kbdgen_dirs[1]

layouts_dir == PathJoin(find_kbdgen_dir, LAYOUTS)

\* glob.glob(os.path.join(layouts_dir, '*.yaml'))
GlobYaml ==
  { PathJoin(layouts_dir, n) : n \in { m \in DOMAIN layouts : EndsWith(m, DOT_YAML) /\ Head(m) # "." } }

----------------------------------------------------------------------------
(* generate_layout_documentation and main, one action per step. *)

unit_vars == <<fn, args, ret>>

\* a faulty variant of TitleLine: both names always shown
TitleLine_AlwaysBoth(base_layout_data, lang) ==
  LET display_names == DictGetDefault(base_layout_data.data, "displayNames", <<>>)
      english_name == IF Truthy(base_layout_data)
                      THEN DictGetDefault(display_names, EN, Upper(lang))
                      ELSE Upper(lang)
      native_name == IF Truthy(base_layout_data)
                     THEN DictGetDefault(display_names, lang, lang)
                     ELSE lang
  IN <<"# Keyboard layouts for ">> \o english_name \o <<" / ">> \o native_name

\* the title line, from what reading the base layout file returned
TitleLine(base_layout_data, lang) ==
  LET display_names == DictGetDefault(base_layout_data.data, "displayNames", <<>>)
      english_name == IF Truthy(base_layout_data)
                      THEN DictGetDefault(display_names, EN, Upper(lang))
                      ELSE Upper(lang)
      native_name == IF Truthy(base_layout_data)
                     THEN DictGetDefault(display_names, lang, lang)
                     ELSE lang
  IN IF english_name = native_name
     THEN <<"# Keyboard layouts for ">> \o english_name
     ELSE <<"# Keyboard layouts for ">> \o english_name \o <<" / ">> \o native_name

\* the sections one layout record appends to output, in the order appended
FileSections(lang, layout_name, layout_data) ==
  LET display_name == get_layout_display_name(layout_data, layout_name, lang)
      region_label == extract_region_label(display_name)
      desktop == [i \in 1..Len(DesktopPlatforms) |->
                    generate_desktop_section(lang, layout_name, layout_data,
                                             DesktopPlatforms[i], region_label)]
      mobile == [i \in 1..Len(MobilePlatforms) |->
                   generate_mobile_section(lang, layout_name, layout_data, MobilePlatforms[i])]
  IN SelectSeq(desktop, LAMBDA section : ~Falsy(section))
     \o SelectSeq(mobile, LAMBDA section : ~Falsy(section))

\* lines 121-126
FindKbdgenDir ==
  /\ pc = "find_kbdgen_dir"
  /\ IF Falsy(find_kbdgen_dir)
     THEN /\ stderr' = Append(stderr, <<"Error: No .kbdgen directory found", <<>>>>)
          /\ exit_code' = 1
          /\ pc' = "exited"
          /\ UNCHANGED lang_code
     ELSE /\ lang_code' = get_language_code(find_kbdgen_dir)
          /\ pc' = "check_layouts_dir"
          /\ UNCHANGED <<stderr, exit_code>>
  /\ UNCHANGED <<kbdgen_dirs, layouts_exists, layouts, out_file, out_opened, title, output,
                 layout_files, idx, markdown, reads, stdout, exc, unit_vars>>

\* lines 127-132
CheckLayoutsDir ==
  /\ pc = "check_layouts_dir"
  /\ IF ~layouts_exists
     THEN /\ stderr' = Append(stderr, <<"Error: Layouts directory not found", layouts_dir>>)
          /\ exit_code' = 1
          /\ pc' = "exited"
     ELSE /\ pc' = "read_base_layout"
          /\ UNCHANGED <<stderr, exit_code>>
  /\ UNCHANGED <<kbdgen_dirs, layouts_exists, layouts, out_file, out_opened, lang_code, title,
                 output, layout_files, idx, markdown, reads, stdout, exc, unit_vars>>

\* lines 134-162
ReadBaseLayout ==
  /\ pc = "read_base_layout"
  /\ LET base_layout_file == PathJoin(layouts_dir, lang_code \o DOT_YAML)
         base_layout_data == read_yaml_file(base_layout_file)
     IN /\ reads' = Append(reads, base_layout_file)
        /\ stderr' = stderr \o ReadDiagnostics(base_layout_file)
        /\ IF Truthy(base_layout_data) /\ base_layout_data.kind # "dict"
           THEN \* base_layout_data.get raises
                /\ exc' = "AttributeError"
                /\ pc' = "except"
                /\ UNCHANGED <<title, output, layout_files, idx>>
           ELSE /\ title' = TitleLine(base_layout_data, lang_code)
                /\ output' = << <<"---">>, <<"layout: default">>, <<"---">>, <<>>,
                                TitleLine(base_layout_data, lang_code), <<>> >>
                /\ layout_files' = Sorted(GlobYaml)
                /\ idx' = 1
                /\ pc' = "process_layouts"
                /\ UNCHANGED exc
  /\ UNCHANGED <<kbdgen_dirs, layouts_exists, layouts, out_file, out_opened, lang_code,
                 markdown, stdout, exit_code, unit_vars>>

\* lines 164-187, one iteration of the loop
ProcessLayoutFile ==
  /\ pc = "process_layouts"
  /\ idx <= Len(layout_files)
  /\ LET layout_file == layout_files[idx]
         layout_name == Remove(Basename(layout_file), DOT_YAML)
         layout_data == read_yaml_file(layout_file)
     IN /\ reads' = Append(reads, layout_file)
        /\ stderr' = stderr \o ReadDiagnostics(layout_file)
        /\ IF ~Truthy(layout_data)
           THEN /\ idx' = idx + 1
                /\ UNCHANGED <<output, exc, pc>>
           ELSE IF layout_data.kind # "dict"
           THEN \* layout_data.get raises
                /\ exc' = "AttributeError"
                /\ pc' = "except"
                /\ UNCHANGED <<output, idx>>
           ELSE /\ output' = output \o FileSections(lang_code, layout_name, layout_data.data)
                /\ idx' = idx + 1
                /\ UNCHANGED <<exc, pc>>
  /\ UNCHANGED <<kbdgen_dirs, layouts_exists, layouts, out_file, out_opened, lang_code, title,
                 layout_files, markdown, stdout, exit_code, unit_vars>>

\* a faulty variant of ReturnMarkdown: the document returned before the loop has ended
ReturnMarkdown_Early ==
  /\ pc = "process_layouts"
  /\ markdown' = StrJoin(<<"\n">>, output)
  /\ pc' = "write_output"
  /\ UNCHANGED <<kbdgen_dirs, layouts_exists, layouts, out_file, out_opened, lang_code, title,
                 output, layout_files, idx, reads, stderr, stdout, exc, exit_code, unit_vars>>

\* lines 189 and 195
ReturnMarkdown ==
  /\ pc = "process_layouts"
  /\ idx > Len(layout_files)
  /\ markdown' = StrJoin(<<"\n">>, output)
  /\ pc' = "write_output"
  /\ UNCHANGED <<kbdgen_dirs, layouts_exists, layouts, out_file, out_opened, lang_code, title,
                 output, layout_files, idx, reads, stderr, stdout, exc, exit_code, unit_vars>>

\* lines 196-199: the file is written; or it cannot be opened (no docs directory,
\* no permission); or it is opened, which truncates it, and writing it fails
WriteOutput ==
  /\ pc = "write_output"
  /\ \/ /\ out_opened' = out_opened + 1
        /\ out_file' = markdown
        /\ pc' = "print_generated"
        /\ UNCHANGED exc
     \/ /\ exc' = "OSError"
        /\ pc' = "except"
        /\ UNCHANGED <<out_file, out_opened>>
     \/ /\ out_opened' = out_opened + 1
        /\ out_file' = <<>>
        /\ exc' = "OSError"
        /\ pc' = "except"
  /\ UNCHANGED <<kbdgen_dirs, layouts_exists, layouts, lang_code, title, output, layout_files,
                 idx, markdown, reads, stderr, stdout, exit_code, unit_vars>>

\* line 201: the message, which starts with U+2713, is printed; or the standard
\* output's encoding cannot encode it and print raises
PrintGenerated ==
  /\ pc = "print_generated"
  /\ \/ /\ stdout' = Append(stdout, "Generated docs/layout.md")
        /\ pc' = "exited"
        /\ UNCHANGED exc
     \/ /\ exc' = "UnicodeEncodeError"
        /\ pc' = "except"
        /\ UNCHANGED stdout
  /\ UNCHANGED <<kbdgen_dirs, layouts_exists, layouts, out_file, out_opened, lang_code, title,
                 output, layout_files, idx, markdown, reads, stderr, exit_code, unit_vars>>

\* lines 202-206
ExceptHandler ==
  /\ pc = "except"
  /\ stderr' = Append(stderr, <<"Error", <<exc>>>>)
  /\ exit_code' = 1
  /\ pc' = "exited"
  /\ UNCHANGED <<kbdgen_dirs, layouts_exists, layouts, out_file, out_opened, lang_code, title,
                 output, layout_files, idx, markdown, reads, stdout, exc, unit_vars>>

Init ==
  /\ kbdgen_dirs \in KbdgenGlobs
  /\ layouts_exists \in BOOLEAN
  /\ kbdgen_dirs = <<>> => ~layouts_exists
  /\ layouts \in LayoutsDirs
  /\ ~layouts_exists => layouts = <<>>
  /\ out_file = OldContent
  /\ out_opened = 0
  /\ pc = "find_kbdgen_dir"
  /\ lang_code = <<>>
  /\ title = <<>>
  /\ output = <<>>
  /\ layout_files = <<>>
  /\ idx = 0
  /\ markdown = <<>>
  /\ reads = <<>>
  /\ stderr = <<>>
  /\ stdout = <<>>
  /\ exc = ""
  /\ exit_code = 0
  /\ fn = ""
  /\ args = <<>>
  /\ ret = <<>>

Next ==
  \/ FindKbdgenDir
  \/ CheckLayoutsDir
  \/ ReadBaseLayout
  \/ ProcessLayoutFile
  \/ ReturnMarkdown
  \/ WriteOutput
  \/ PrintGenerated
  \/ ExceptHandler

Spec == Init /\ [][Next]_vars

----------------------------------------------------------------------------
(* Unit runs: one pure function applied to one input. *)

NameChars == {"(", ")", "N"}

NameStrings == UNION { [1..n -> NameChars] : n \in 0..MaxNameLen }

VariantNames == {"primary", "config", "tablet-600", "iPad-9in", "custom"}

\* the mappings of variants: sequences of distinct keys
VariantMappings ==
  UNION { { v \in [1..n -> VariantNames] : \A i, j \in 1..n : i # j => v[i] # v[j] } :
          n \in 0..MaxVariants }

\* the layout records of the section renderers' unit runs: no entry for the
\* platform, a null entry, or a mapping of variants
SectionRecords(platform) ==
  { <<>>, platform :> None } \cup { platform :> v : v \in VariantMappings }

FOO == <<"f">>

BAR == <<"b">>

DisplayNameValues == { <<>>, <<"X">>, <<"Y">> }

\* the layout records of get_layout_display_name's unit runs
DisplayNameRecords ==
  { <<>> } \cup
  { "displayNames" :> d : d \in UNION { [ks -> DisplayNameValues] : ks \in SUBSET {FOO, BAR, EN} } }

RunIdle ==
  /\ kbdgen_dirs = <<>>
  /\ layouts_exists = FALSE
  /\ layouts = <<>>
  /\ out_file = OldContent
  /\ out_opened = 0
  /\ lang_code = <<>>
  /\ title = <<>>
  /\ output = <<>>
  /\ layout_files = <<>>
  /\ idx = 0
  /\ markdown = <<>>
  /\ reads = <<>>
  /\ stderr = <<>>
  /\ stdout = <<>>
  /\ exc = ""
  /\ exit_code = 0

UnitInit ==
  /\ RunIdle
  /\ pc = "call"
  /\ ret = <<>>
  /\ \/ /\ fn = "get_layout_display_name"
        /\ args \in [layout_data : DisplayNameRecords, layout_name : {FOO, EN},
                     lang_code : {FOO, BAR, EN}]
     \/ /\ fn = "extract_region_label"
        /\ args \in [display_name : NameStrings]
     \/ /\ fn = "generate_desktop_section"
        /\ \E platform \in {"macOS", "windows", "chromeOS", "linux"} :
             args \in [kbd : {SMA}, layout_name : {SMA, SMA_N},
                       layout_data : SectionRecords(platform), platform : {platform},
                       region_label : {None, <<"N">>}]
     \/ /\ fn = "generate_mobile_section"
        /\ \E platform \in {"android", "iOS"} :
             args \in [kbd : {SMA}, layout_name : {SMA, SMA_N},
                       layout_data : SectionRecords(platform), platform : {platform}]

CallGetLayoutDisplayName ==
  /\ pc = "call"
  /\ fn = "get_layout_display_name"
  /\ ret' = get_layout_display_name(args.layout_data, args.layout_name, args.lang_code)
  /\ pc' = "returned"
  /\ UNCHANGED <<run_vars, fn, args>>

CallExtractRegionLabel ==
  /\ pc = "call"
  /\ fn = "extract_region_label"
  /\ ret' = extract_region_label(args.display_name)
  /\ pc' = "returned"
  /\ UNCHANGED <<run_vars, fn, args>>

CallGenerateDesktopSection ==
  /\ pc = "call"
  /\ fn = "generate_desktop_section"
  /\ ret' = generate_desktop_section(args.kbd, args.layout_name, args.layout_data,
                                     args.platform, args.region_label)
  /\ pc' = "returned"
  /\ UNCHANGED <<run_vars, fn, args>>

CallGenerateMobileSection ==
  /\ pc = "call"
  /\ fn = "generate_mobile_section"
  /\ ret' = generate_mobile_section(args.kbd, args.layout_name, args.layout_data, args.platform)
  /\ pc' = "returned"
  /\ UNCHANGED <<run_vars, fn, args>>

UnitNext ==
  \/ CallGetLayoutDisplayName
  \/ CallExtractRegionLabel
  \/ CallGenerateDesktopSection
  \/ CallGenerateMobileSection

UnitSpec == UnitInit /\ [][UnitNext]_vars

----------------------------------------------------------------------------
(* Reading a rendered text back: its lines, its embed elements and their   *)
(* query parameters.                                                       *)

\* the lines of a text: the pieces between its "\n" pieces (the lines of the
\* two halves, the last line of the first half joined to the first of the second)
RECURSIVE Lines(_)
Lines(text) ==
  IF text = <<>> THEN << <<>> >>
  ELSE IF Len(text) = 1 THEN (IF text[1] = "\n" THEN << <<>>, <<>> >> ELSE <<text>>)
  ELSE LET half == Len(text) \div 2
           a == Lines(SubSeq(text, 1, half))
           b == Lines(SubSeq(text, half + 1, Len(text)))
       IN SubSeq(a, 1, Len(a) - 1) \o << a[Len(a)] \o b[1] >> \o Tail(b)

IsHeading(line) == line # <<>> /\ line[1] = "## "

IsSubheading(line) == line # <<>> /\ line[1] = "### "

IsEmbed(line) ==
  /\ Len(line) >= 2
  /\ line[1] = "<iframe src=\""
  /\ line[2] = EMBED_BASE_URL
  /\ line[Len(line)] = "\"></iframe>"

QueryKeys == <<"?kbd=", "&layout=", "&platform=", "&variant=">>

\* the positions of a piece in a line
KeyAt(line, key) == {i \in 1..Len(line) : line[i] = key}

\* the value of the k-th query parameter of an embed line; None when the line
\* does not hold the four parameters in order, each once
Param(line, k) ==
  LET a1 == KeyAt(line, QueryKeys[1])
      a2 == KeyAt(line, QueryKeys[2])
      a3 == KeyAt(line, QueryKeys[3])
      a4 == KeyAt(line, QueryKeys[4])
  IN IF Cardinality(a1) # 1 \/ Cardinality(a2) # 1 \/ Cardinality(a3) # 1 \/ Cardinality(a4) # 1
     THEN None
     ELSE LET p == <<CHOOSE i \in a1 : TRUE, CHOOSE i \in a2 : TRUE,
                     CHOOSE i \in a3 : TRUE, CHOOSE i \in a4 : TRUE, Len(line)>>
          IN IF p[1] = 3 /\ p[1] < p[2] /\ p[2] < p[3] /\ p[3] < p[4]
             THEN SubSeq(line, p[k] + 1, p[k + 1] - 1)
             ELSE None

Embeds(text) == SelectSeq(Lines(text), IsEmbed)

Returned(f) == pc = "returned" /\ fn = f

\* whether a record has an entry for a platform, and a non-empty one
HasEntry(layout_data, platform) == platform \in DOMAIN layout_data

HasVariants(layout_data, platform) ==
  HasEntry(layout_data, platform) /\ ~Falsy(layout_data[platform])

\* the platform labels and the device labels, as the specification tables them
PlatformLabel(platform) ==
  CASE platform = "macOS" -> "Mac"
    [] platform = "windows" -> "Windows"
    [] platform = "chromeOS" -> "ChromeOS"
    [] platform = "android" -> "Android"
    [] platform = "iOS" -> "iOS/iPadOS"
    [] OTHER -> platform

DeviceLabel(platform, variant) ==
  CASE platform = "iOS" /\ variant = "primary" -> "iPhone"
    [] platform # "iOS" /\ variant = "primary" -> "Phone"
    [] variant = "tablet-600" -> "Tablet"
    [] variant = "iPad-9in" -> "9\" iPad"
    [] variant = "iPad-12in" -> "12\" iPad"
    [] OTHER -> variant

----------------------------------------------------------------------------
(* C4 *)

\* C4 as stated: a section renderer returns an absent result if and only if
\* the record has no entry for the platform.
C4_AbsentIffNoEntry ==
  (Returned("generate_desktop_section") \/ Returned("generate_mobile_section"))
    => (ret = None <=> ~HasEntry(args.layout_data, args.platform))

\* C4, amended: a section renderer returns an absent result if and only if the
\* record has no entry for the platform or the entry is empty (an empty mapping
\* or null); whenever the entry holds at least one variant the result is a
\* section that starts with the platform's heading.
C4_AbsentIffNoVariants ==
  (Returned("generate_desktop_section") \/ Returned("generate_mobile_section"))
    => /\ ret = None <=> ~HasVariants(args.layout_data, args.platform)
       /\ HasVariants(args.layout_data, args.platform)
            => /\ IsHeading(Lines(ret)[1])
               /\ Lines(ret)[1][2] = PlatformLabel(args.platform)

\* a renderer has returned absent for a platform whose entry is an empty mapping
C4_Witness ==
  /\ Returned("generate_mobile_section")
  /\ HasEntry(args.layout_data, args.platform)
  /\ args.layout_data[args.platform] = <<>>
  /\ ret = None

----------------------------------------------------------------------------
(* C5 *)

\* the variants of a mapping that are rendered: all but config, in order
Rendered(variants) == SelectSeq(variants, LAMBDA v : v # "config")

\* C5: generate_mobile_section emits, after the platform heading, one
\* subheading, blank line and embed for each variant key other than config, in
\* the insertion order of the mapping, the embed carrying the variant's own
\* identifier and the subheading its device label (iPhone for primary on iOS);
\* nothing is emitted for config.
C5_MobileVariants ==
  (Returned("generate_mobile_section") /\ ret # None)
    => LET ls == Lines(ret)
           vs == Rendered(args.layout_data[args.platform])
       IN /\ Len(ls) = 2 + 4 * Len(vs)
          /\ ls[1] = <<"## ", PlatformLabel(args.platform)>>
          /\ ls[2] = <<>>
          /\ \A k \in 1..Len(vs) :
               /\ ls[4 * k - 1] = <<"### ", DeviceLabel(args.platform, vs[k])>>
               /\ ls[4 * k] = <<>>
               /\ IsEmbed(ls[4 * k + 1])
               /\ Param(ls[4 * k + 1], 1) = args.kbd
               /\ Param(ls[4 * k + 1], 2) = args.layout_name
               /\ Param(ls[4 * k + 1], 3) = <<args.platform>>
               /\ Param(ls[4 * k + 1], 4) = <<vs[k]>>
               /\ ls[4 * k + 2] = <<>>
          /\ \A i \in 1..Len(ret) : ret[i] # "config"

\* the iOS mapping primary, config, tablet-600 has given two embeds, headed
\* iPhone then Tablet
C5_Witness ==
  /\ Returned("generate_mobile_section")
  /\ args.platform = "iOS"
  /\ args.layout_data = ("iOS" :> <<"primary", "config", "tablet-600">>)
  /\ Len(Embeds(ret)) = 2
  /\ SelectSeq(Lines(ret), IsSubheading) = << <<"### ", "iPhone">>, <<"### ", "Tablet">> >>

----------------------------------------------------------------------------
(* C7 *)

\* C7: get_layout_display_name returns the first non-empty value among
\* displayNames[layout identifier], displayNames[language identifier] and
\* displayNames['en'], probed in that order, and the layout identifier when
\* none of the three is present and non-empty.
C7_DisplayName ==
  Returned("get_layout_display_name")
    => LET names == IF "displayNames" \in DOMAIN args.layout_data
                    THEN args.layout_data["displayNames"] ELSE <<>>
           probes == <<args.layout_name, args.lang_code, EN>>
           found == {i \in 1..3 : probes[i] \in DOMAIN names /\ Len(names[probes[i]]) > 0}
       IN IF found = {} THEN ret = args.layout_name
          ELSE ret = names[probes[CHOOSE i \in found : \A j \in found : i <= j]]

\* displayNames = {bar: Y, en: X}, layout foo, language bar has given Y
C7_Witness ==
  /\ Returned("get_layout_display_name")
  /\ args.layout_name = FOO
  /\ args.lang_code = BAR
  /\ args.layout_data = ("displayNames" :> ((BAR :> <<"Y">>) @@ (EN :> <<"X">>)))
  /\ ret = <<"Y">>

----------------------------------------------------------------------------
(* C9 *)

\* the heading generate_desktop_section is to give
DesktopHeading(platform, region_label) ==
  IF region_label = None THEN <<"## ", PlatformLabel(platform)>>
  ELSE <<"## ", PlatformLabel(platform), " (">> \o region_label \o <<")">>

\* what C9 says of one result of generate_desktop_section
OneEmbed(result, a) ==
  /\ result # None
  /\ Len(Embeds(result)) = 1
  /\ Param(Embeds(result)[1], 1) = a.kbd
  /\ Param(Embeds(result)[1], 2) = a.layout_name
  /\ Param(Embeds(result)[1], 3) = <<a.platform>>
  /\ Param(Embeds(result)[1], 4) = <<"primary">>
  /\ Lines(result)[1] = DesktopHeading(a.platform, a.region_label)

\* C9 as stated: for every record that has an entry for the platform,
\* generate_desktop_section emits exactly one embed, with variant primary and
\* the given kbd, layout and platform, under the platform heading (with the
\* region label when one is given).
C9_OneEmbedIfEntry ==
  (Returned("generate_desktop_section") /\ HasEntry(args.layout_data, args.platform))
    => OneEmbed(ret, args)

\* C9, amended: the same for every record whose entry for the platform holds
\* at least one variant, however many and whichever they are.
C9_OneEmbedIfVariants ==
  (Returned("generate_desktop_section") /\ HasVariants(args.layout_data, args.platform))
    => OneEmbed(ret, args)

\* a desktop entry of three variants, none of them primary, has given its one embed
C9_Witness ==
  /\ Returned("generate_desktop_section")
  /\ args.platform = "windows"
  /\ args.layout_data = ("windows" :> <<"custom", "config", "tablet-600">>)
  /\ args.region_label = <<"N">>
  /\ Len(Embeds(ret)) = 1
  /\ Lines(ret)[1] = <<"## ", "Windows", " (", "N", ")">>

----------------------------------------------------------------------------
(* C10 *)

\* the "(" of s that some later ")" closes
Closed(s) == {i \in 1..Len(s) : s[i] = "(" /\ \E j \in (i + 1)..Len(s) : s[j] = ")"}

\* the "(" of s followed by one or more characters other than ")" and then a ")"
ClosedNonEmpty(s) ==
  {i \in 1..Len(s) : /\ s[i] = "("
                     /\ \E j \in (i + 2)..Len(s) :
                          s[j] = ")" /\ \A k \in (i + 1)..(j - 1) : s[k] # ")"}

\* the text between position i of s and the first ")" after it
Interior(s, i) ==
  LET j == CHOOSE m \in (i + 1)..Len(s) : s[m] = ")" /\ \A k \in (i + 1)..(m - 1) : s[k] # ")"
  IN SubSeq(s, i + 1, j - 1)

Least(S) == CHOOSE i \in S : \A j \in S : i <= j

\* C10 as stated: extract_region_label returns the text between the first "("
\* that a ")" closes and that ")", and an absent result when there is none.
C10_FirstParenthesized ==
  Returned("extract_region_label")
    => IF Closed(args.display_name) = {} THEN ret = None
       ELSE ret = Interior(args.display_name, Least(Closed(args.display_name)))

\* C10, amended: extract_region_label returns the interior of the first
\* parenthesized substring whose interior is not empty (a "(", one or more
\* characters other than ")", a ")"), and an absent result when the string
\* holds no such substring.
C10_FirstNonEmptyParenthesized ==
  Returned("extract_region_label")
    => IF ClosedNonEmpty(args.display_name) = {} THEN ret = None
       ELSE ret = Interior(args.display_name, Least(ClosedNonEmpty(args.display_name)))

\* "()(N)" has given "N": the empty pair of parentheses is passed over
C10_Witness ==
  /\ Returned("extract_region_label")
  /\ args.display_name = <<"(", ")", "(", "N", ")">>
  /\ ret = <<"N">>

----------------------------------------------------------------------------
(* The runs. *)

\* generate_layout_documentation has returned the document
GenerationDone == markdown # <<>>

\* the run has failed during generation
GenerationFailed == pc \in {"except", "exited"} /\ markdown = <<>>

\* the layout files, by name
LayoutFileNames == {n \in DOMAIN layouts : EndsWith(n, DOT_YAML)}

\* a layout file that cannot be read or decoded, or that decodes to something
\* that is no layout record
Unusable(n) == layouts[n].kind \in {"unreadable", "null", "list"}

\* a layout file whose record renders sections
Usable(n) == layouts[n].kind = "dict" /\ DOMAIN layouts[n].data # {}

----------------------------------------------------------------------------
(* C1 *)

\* C1 as stated: when a layout file is unreadable or malformed (here: one
\* other than the base layout file, which is read for the title as well) and
\* nothing fails in writing the output file or printing the success message,
\* the run ends with exit code 0 and with the output file written, holding the
\* sections of every other file.
C1_SkipsUnusable ==
  (/\ pc = "exited"
   /\ layouts_exists
   /\ \E n \in LayoutFileNames : Unusable(n)
   /\ \A n \in LayoutFileNames : layouts[n].kind = "list" => n # lang_code \o DOT_YAML
   /\ exc \notin {"OSError", "UnicodeEncodeError"})
    => /\ exit_code = 0
       /\ out_opened = 1
       /\ out_file = markdown
       /\ \A n \in LayoutFileNames :
            Usable(n) =>
              LET sections == FileSections(lang_code, Remove(n, DOT_YAML), layouts[n].data)
              IN \A k \in 1..Len(sections) :
                   \E i \in 1..Len(output) : output[i] = sections[k]

----------------------------------------------------------------------------
(* C2 *)

\* C2: the output file is opened for writing at most once, and only after
\* every layout file has been processed and the complete document is built;
\* until then, and in every run that fails during generation, it keeps its
\* previous content.
C2_WrittenOnceAtEnd ==
  /\ out_opened <= 1
  /\ out_opened = 0 => out_file = OldContent
  /\ out_opened = 1
       => /\ GenerationDone
          /\ idx > Len(layout_files)
          /\ \A i \in 1..Len(layout_files) : \E r \in 1..Len(reads) : reads[r] = layout_files[i]
          /\ markdown = StrJoin(<<"\n">>, output)
          /\ out_file = markdown \/ exc = "OSError"
  /\ GenerationFailed => out_opened = 0 /\ out_file = OldContent

\* a run has failed on a later layout file, after sections were rendered, and
\* the output file is untouched
C2_Witness ==
  /\ pc = "exited"
  /\ exc = "AttributeError"
  /\ Len(output) > 6
  /\ out_opened = 0
  /\ out_file = OldContent

----------------------------------------------------------------------------
(* C3 *)

\* C3 as stated: the exit code is 0 exactly when the document was generated
\* and written; it is non-zero when no definitions directory is found, when
\* the layouts directory is missing and when anything else fails, and in the
\* two missing-input cases no layout file has been read.
C3_ExitCode ==
  pc = "exited"
    => /\ exit_code = 0 <=> (GenerationDone /\ out_opened = 1 /\ out_file = markdown)
       /\ kbdgen_dirs = <<>> => (exit_code # 0 /\ reads = <<>>)
       /\ (kbdgen_dirs # <<>> /\ ~layouts_exists) => (exit_code # 0 /\ reads = <<>>)
       /\ exc # "" => exit_code # 0

----------------------------------------------------------------------------
(* C6 *)

PlatformRank(platform) ==
  CASE platform = <<"macOS">> -> 1
    [] platform = <<"windows">> -> 2
    [] platform = <<"chromeOS">> -> 3
    [] platform = <<"android">> -> 4
    [] platform = <<"iOS">> -> 5

\* embed line a may precede embed line b: a's file sorts before b's, or they
\* are of one file and a's platform is not after b's (a transitive order)
MayPrecede(a, b) ==
  IF Param(a, 2) = Param(b, 2)
  THEN PlatformRank(Param(a, 3)) <= PlatformRank(Param(b, 3))
  ELSE StrLess(Param(a, 2) \o DOT_YAML, Param(b, 2) \o DOT_YAML)

\* the heading line that line i of ls is under: the last heading line before it
HeadingOf(ls, i) ==
  LET before == {h \in 1..(i - 1) : IsHeading(ls[h])}
  IN ls[CHOOSE h \in before : \A k \in before : k <= h]

\* C6: the document is the front-matter block, a blank line, the title line, a
\* blank line, then the sections, each after a blank line; the embeds appear
\* by file in ascending order of file name and within a file in the order
\* macOS, windows, chromeOS, android, iOS (each embed may precede the next
\* one), each under its platform's heading.
C6_SectionOrder ==
  GenerationDone
    => LET ls == Lines(markdown)
           embeds == {i \in 7..Len(ls) : IsEmbed(ls[i])}
       IN /\ Len(ls) >= 6
          /\ SubSeq(ls, 1, 6) = << <<"---">>, <<"layout: default">>, <<"---">>, <<>>, title, <<>> >>
          /\ Len(ls) > 6 => IsHeading(ls[7])
          /\ \A i \in 7..Len(ls) : IsHeading(ls[i]) => ls[i - 1] = <<>>
          /\ \A i \in embeds :
               /\ HeadingOf(ls, i)[2] = PlatformLabel(Param(ls[i], 3)[1])
               /\ \A j \in embeds :
                    (i < j /\ \A m \in embeds : ~(i < m /\ m < j)) => MayPrecede(ls[i], ls[j])

\* a document in which the iOS embed of sma-N.yaml precedes the macOS embed of
\* sma.yaml: sma-N.yaml sorts before sma.yaml
C6_Witness ==
  /\ GenerationDone
  /\ LET ls == Lines(markdown)
     IN \E i, j \in 7..Len(ls) :
          /\ i < j
          /\ IsEmbed(ls[i]) /\ Param(ls[i], 2) = SMA_N /\ Param(ls[i], 3) = <<"iOS">>
          /\ IsEmbed(ls[j]) /\ Param(ls[j], 2) = SMA /\ Param(ls[j], 3) = <<"macOS">>

----------------------------------------------------------------------------
(* C8 *)

\* the displayNames of the base record; empty when there is no base record
BaseDisplayNames ==
  LET name == lang_code \o DOT_YAML
  IN IF name \in DOMAIN layouts /\ layouts[name].kind = "dict"
        /\ "displayNames" \in DOMAIN layouts[name].data
     THEN layouts[name].data["displayNames"]
     ELSE <<>>

\* C8: the title is built from the English name (displayNames.en of the base
\* record, else the upper-cased language identifier) and the native name
\* (displayNames[language identifier], else the language identifier): the
\* single-name form exactly when the two are identical, else the two joined
\* by " / "; it is the fifth line of the document.
C8_Title ==
  title # <<>>
    => LET english == IF EN \in DOMAIN BaseDisplayNames THEN BaseDisplayNames[EN]
                      ELSE Upper(lang_code)
           native == IF lang_code \in DOMAIN BaseDisplayNames THEN BaseDisplayNames[lang_code]
                     ELSE lang_code
       IN /\ english = native => title = <<"# Keyboard layouts for ">> \o english
          /\ english # native
               => title = <<"# Keyboard layouts for ">> \o english \o <<" / ">> \o native
          /\ GenerationDone => Lines(markdown)[5] = title

\* a base record whose English and native names are both "S" has given the
\* single-name title
C8_Witness ==
  /\ lang_code = SMA
  /\ EN \in DOMAIN BaseDisplayNames
  /\ SMA \in DOMAIN BaseDisplayNames
  /\ BaseDisplayNames[EN] = BaseDisplayNames[SMA]
  /\ title = <<"# Keyboard layouts for ", "S">>
  /\ GenerationDone

====
